---- MODULE Spec2Model ----
(***************************************************************************)
(* Booking agent of CrewAI_MedScheduler (edge function `booking-agent`).   *)
(* The state is the two tables the handler writes, appointment_slots and   *)
(* appointments, plus the position and local variables of every request    *)
(* handler in flight.  Each `await` on the database client is one atomic   *)
(* step; handlers of different requests interleave between steps.          *)
(***************************************************************************)
EXTENDS Integers, Sequences, FiniteSets, TLC

\* ---------------------------------------------------------------- bounds
NumHandlers == 2        \* request handlers that may be in flight together
MaxAppts == 2           \* rows the appointments table may grow to

Handlers == 1..NumHandlers
ApptIds == 1..MaxAppts

\* ------------------------------------------------- provisioned rows (DDL)
\* auth.users that send requests: u1 is the account of doctor d1 and u2 the
\* account of doctor d2.  Either may book as a patient; towards the other
\* doctor's slot a user is an ordinary patient.
Users == {"u1", "u2"}
Doctors == {"d1", "d2"}
NoDoctor == "d0"        \* a doctor_id that matches no row of doctors
SlotIds == {"s1", "s2"}
NoSlot == "s0"          \* a slot_id that matches no row of appointment_slots
Dates == {1, 2}
Times == {1, 2}

DoctorUser(d) == IF d = "d1" THEN "u1" ELSE "u2"

SlotRow(s) ==
    IF s = "s1" THEN [doctor_id |-> "d1", slot_date |-> 1, slot_time |-> 1]
                ELSE [doctor_id |-> "d2", slot_date |-> 1, slot_time |-> 2]

\* observe: whether a handler that has answered keeps its request, the row it
\* read and its response on record until it is closed (TRUE), or is at once
\* free for the next request (FALSE).  It never changes.
\* trip: history of the latest answered requests, see TripAfter.
VARIABLES appointment_slots, appointments, req, observe, trip

\* The state of the other agents: the tables questionnaire_responses and
\* reminders, the requests of the questionnaire agent in flight (sub) and
\* the automatic booking under way (saga).
VARIABLES questionnaire_responses, reminders, sub, saga

\* listing: a slot table, the rows get_slots returned of it and the slot the
\* dashboard picked.  rem: the requests of the reminder agent in flight.
\* snap: appointment_slots and appointments as they were when the latest
\* request was received (kept by CloseSnap).
VARIABLES listing, rem, snap

others == <<listing, rem, snap>>

agents == <<questionnaire_responses, reminders, sub, saga, others>>

vars == <<appointment_slots, appointments, req, observe, trip, agents>>

aux == <<observe, trip, agents>>

\* ------------------------------------------------------------- responses
NoResponse == [status |-> 0, success |-> FALSE, error |-> "none"]
Ok == [status |-> 200, success |-> TRUE, error |-> ""]
SlotNoLongerAvailable ==
    [status |-> 400, success |-> FALSE, error |-> "Slot no longer available"]
AppointmentNotFound ==
    [status |-> 404, success |-> FALSE, error |-> "Appointment not found"]
ServerError == [status |-> 500, success |-> FALSE, error |-> "db error"]
Unauthorized401 == [status |-> 401, success |-> FALSE, error |-> "Unauthorized"]
UnknownAction400 ==
    [status |-> 400, success |-> FALSE, error |-> "Unknown action"]
AppointmentIdRequired ==
    [status |-> 400, success |-> FALSE, error |-> "appointment_id required"]

\* The caller of a request without a valid token.
NoUser == ""

\* The handler's local `appointment`: of the row it selected, the columns
\* the handler or a claim refers to.
NoAppointment ==
    [slot_id |-> "", appointment_date |-> 0, appointment_time |-> 0,
     status |-> ""]

IdleReq ==
    [pc |-> "idle", action |-> "none", user |-> "", appointment_id |-> 0,
     doctor_id |-> "", slot_id |-> "", date |-> 0, time |-> 0,
     appointment |-> NoAppointment, new_slot_was_available |-> FALSE,
     response |-> NoResponse]

\* ------------------------------------------------------------ row access
\* Row-level security of appointment_slots: FOR ALL USING doctor_id IN
\* (SELECT id FROM doctors WHERE user_id = auth.uid()).  An UPDATE by any
\* other caller matches no row and reports no error.
SlotWritable(u, s) ==
    s \in SlotIds /\ DoctorUser(SlotRow(s).doctor_id) = u

\* .update({ is_available: v }).eq('id', s) issued by user u
UpdateSlot(slots, u, s, v) ==
    IF SlotWritable(u, s) THEN [slots EXCEPT ![s] = v] ELSE slots

\* the same select without .eq('patient_id', u): any caller reads the row
SelectOwnAppointment_AnyCaller(appts, id, u) ==
    IF id \in 1..Len(appts)
    THEN [slot_id |-> appts[id].slot_id,
          appointment_date |-> appts[id].appointment_date,
          appointment_time |-> appts[id].appointment_time,
          status |-> appts[id].status]
    ELSE NoAppointment

\* .from('appointments').select('*').eq('id', id).eq('patient_id', u).single()
SelectOwnAppointment(appts, id, u) ==
    IF id \in 1..Len(appts) /\ appts[id].patient_id = u
    THEN [slot_id |-> appts[id].slot_id,
          appointment_date |-> appts[id].appointment_date,
          appointment_time |-> appts[id].appointment_time,
          status |-> appts[id].status]
    ELSE NoAppointment

\* A request of the questionnaire agent: its payload, position and answer.
IdleSub ==
    [pc |-> "idle", action |-> "none", user |-> "", appointment_id |-> 0,
     questionnaire_id |-> "", responses |-> 0, response |-> NoResponse]

\* An automatic booking, as the dashboard and the orchestrator hold it: the
\* slot picked from the listing (listed), the date and time of the preview,
\* the number of appointments there were when the listing was read (seen),
\* the appointment of step 1, the outcome of steps 2 and 3, the
\* orchestrator's HTTP response and the result the client makes of it.
NoResult ==
    [success |-> FALSE, reminder_scheduled |-> FALSE,
     questionnaire_sent |-> FALSE, message |-> "none"]

IdleSaga ==
    [pc |-> "idle", user |-> "", listed |-> "", date |-> 0, time |-> 0,
     seen |-> 0, appointment_id |-> 0, reminder_scheduled |-> FALSE,
     questionnaire_sent |-> FALSE, response |-> NoResponse,
     result |-> NoResult]

\* A request of the reminder agent: its payload, position and answer.
IdleRem ==
    [pc |-> "idle", action |-> "none", user |-> "", appointment_id |-> 0,
     response |-> NoResponse]

\* No listing has been asked for.
NoListing ==
    [pc |-> "idle", table |-> <<>>, today |-> 0, slots |-> <<>>,
     selectedSlot |-> ""]

Tables ==
    /\ rem = [h \in Handlers |-> IdleRem]
    /\ snap = <<[s \in SlotIds |-> TRUE], <<>>>>
    /\ appointment_slots = [s \in SlotIds |-> TRUE]
    /\ appointments = <<>>
    /\ req = [h \in Handlers |-> IdleReq]
    /\ questionnaire_responses = {}
    /\ reminders = {}
    /\ sub = [h \in Handlers |-> IdleSub]
    /\ saga = IdleSaga

NoTrip == [stage |-> "none", appointment_id |-> 0, slot_id |-> ""]

Init == Tables /\ observe = FALSE /\ trip = NoTrip /\ listing = NoListing

InitObserved ==
    Tables /\ observe = TRUE /\ trip = NoTrip /\ listing = NoListing

\* What the latest answered requests were, kept when observe is set:
\*   "booked"     the latest answer is the success of a book_appointment
\*                that created appointment_id on slot_id;
\*   "cancelled"  that booking was the answer before the latest, and the
\*                latest is the success of a cancel_appointment of it;
\*   "rebooked"   after those two, the latest answer is the success of a
\*                book_appointment on the same slot (a booking as well);
\*   "refused"    after those two, a book_appointment on the same slot with
\*                an existing doctor_id was answered with a failure.
TripAfter(r, resp) ==
    IF ~observe THEN trip
    ELSE IF r.action = "book_appointment" /\ resp.success
    THEN [stage |-> IF trip.stage = "cancelled" /\ r.slot_id = trip.slot_id
                    THEN "rebooked" ELSE "booked",
          appointment_id |-> r.appointment_id, slot_id |-> r.slot_id]
    ELSE IF r.action = "book_appointment" /\ trip.stage = "cancelled"
            /\ r.slot_id = trip.slot_id /\ r.doctor_id \in Doctors
    THEN [trip EXCEPT !.stage = "refused"]
    ELSE IF r.action = "cancel_appointment" /\ resp.success
            /\ trip.stage \in {"booked", "rebooked"}
            /\ r.appointment_id = trip.appointment_id
    THEN [trip EXCEPT !.stage = "cancelled"]
    ELSE NoTrip

\* return new Response(...): the handler's record once it has answered
Respond(r, resp) ==
    IF observe THEN [r EXCEPT !.pc = "done", !.response = resp] ELSE IdleReq

InFlight(h) == req[h].pc \notin {"idle", "done"}
BookingsInFlight == Cardinality({h \in Handlers : req[h].pc = "book_insert"})

\* ------------------------------------------------------ book_appointment
\* book_appointment without the availability check (lines 72-85 left out)
BookCheckSlot_Unchecked(h, u, d, s, dt, tm) ==
    /\ req[h].pc = "idle"
    /\ Len(appointments) + BookingsInFlight < MaxAppts
    /\ req' = [req EXCEPT ![h] =
                   [IdleReq EXCEPT !.pc = "book_insert",
                       !.action = "book_appointment", !.user = u,
                       !.doctor_id = d, !.slot_id = s, !.date = dt, !.time = tm]]
    /\ UNCHANGED <<appointment_slots, appointments, observe, trip, agents>>

\* lines 70-85: read the slot, answer 400 when it is missing or taken
BookCheckSlot(h, u, d, s, dt, tm) ==
    /\ req[h].pc = "idle"
    /\ Len(appointments) + BookingsInFlight < MaxAppts
    /\ LET r == [IdleReq EXCEPT !.action = "book_appointment", !.user = u,
                     !.doctor_id = d, !.slot_id = s, !.date = dt, !.time = tm]
       IN  IF s \in SlotIds /\ appointment_slots[s]
           THEN /\ req' = [req EXCEPT ![h] = [r EXCEPT !.pc = "book_insert"]]
                /\ UNCHANGED trip
           ELSE /\ req' = [req EXCEPT ![h] =
                                Respond(r, SlotNoLongerAvailable)]
                /\ trip' = TripAfter(r, SlotNoLongerAvailable)
    /\ UNCHANGED <<appointment_slots, appointments, observe, agents>>

\* the insert with status 'pending' in place of 'confirmed' (line 97)
BookInsert_Pending(h) ==
    /\ req[h].pc = "book_insert"
    /\ IF req[h].doctor_id \in Doctors
       THEN LET row == [id |-> Len(appointments) + 1,
                        patient_id |-> req[h].user,
                        doctor_id |-> req[h].doctor_id,
                        slot_id |-> req[h].slot_id,
                        appointment_date |-> req[h].date,
                        appointment_time |-> req[h].time,
                        status |-> "pending"]
            IN  /\ appointments' = Append(appointments, row)
                /\ req' = [req EXCEPT ![h].pc = "book_mark",
                                      ![h].appointment_id = row.id]
                /\ UNCHANGED trip
       ELSE /\ req' = [req EXCEPT ![h] = Respond(req[h], ServerError)]
            /\ trip' = TripAfter(req[h], ServerError)
            /\ UNCHANGED appointments
    /\ UNCHANGED <<appointment_slots, observe, agents>>

\* lines 87-102: insert the appointment; a foreign-key failure is thrown
BookInsert(h) ==
    /\ req[h].pc = "book_insert"
    /\ IF req[h].doctor_id \in Doctors
       THEN LET row == [id |-> Len(appointments) + 1,
                        patient_id |-> req[h].user,
                        doctor_id |-> req[h].doctor_id,
                        slot_id |-> req[h].slot_id,
                        appointment_date |-> req[h].date,
                        appointment_time |-> req[h].time,
                        status |-> "confirmed"]
            IN  /\ appointments' = Append(appointments, row)
                /\ req' = [req EXCEPT ![h].pc = "book_mark",
                                      ![h].appointment_id = row.id]
                /\ UNCHANGED trip
       ELSE /\ req' = [req EXCEPT ![h] = Respond(req[h], ServerError)]
            /\ trip' = TripAfter(req[h], ServerError)
            /\ UNCHANGED appointments
    /\ UNCHANGED <<appointment_slots, observe, agents>>

\* lines 104-114: mark the slot unavailable and answer 200
BookMarkSlot(h) ==
    /\ req[h].pc = "book_mark"
    /\ appointment_slots' =
           UpdateSlot(appointment_slots, req[h].user, req[h].slot_id, FALSE)
    /\ req' = [req EXCEPT ![h] = Respond(req[h], Ok)]
    /\ trip' = TripAfter(req[h], Ok)
    /\ UNCHANGED <<appointments, observe, agents>>

\* ------------------------------------------------ reschedule_appointment
\* lines 118-133: read the caller's own appointment, answer 404 without it
RescheduleSelect(h, u, id, s, dt, tm) ==
    /\ req[h].pc = "idle"
    /\ LET a == SelectOwnAppointment(appointments, id, u)
           r == [IdleReq EXCEPT !.action = "reschedule_appointment",
                     !.user = u, !.appointment_id = id, !.slot_id = s,
                     !.date = dt, !.time = tm, !.appointment = a,
                     !.new_slot_was_available =
                         (s \in SlotIds /\ appointment_slots[s])]
       IN  IF a = NoAppointment
           THEN /\ req' = [req EXCEPT ![h] =
                                Respond(r, AppointmentNotFound)]
                /\ trip' = TripAfter(r, AppointmentNotFound)
           ELSE /\ req' = [req EXCEPT ![h] = [r EXCEPT !.pc = "resched_free"]]
                /\ UNCHANGED trip
    /\ UNCHANGED <<appointment_slots, appointments, observe, agents>>

\* lines 135-139: free the slot the appointment row named when it was read
RescheduleFreeOld(h) ==
    /\ req[h].pc = "resched_free"
    /\ appointment_slots' = UpdateSlot(appointment_slots, req[h].user,
                                       req[h].appointment.slot_id, TRUE)
    /\ req' = [req EXCEPT ![h].pc = "resched_update"]
    /\ UNCHANGED <<appointments, aux>>

\* lines 141-153: point the appointment at the new slot; the row filter is
\* the id alone (plus the patient's own-row update policy); a new_slot_id
\* without a slot row violates the foreign key and is thrown
RescheduleUpdate(h) ==
    /\ req[h].pc = "resched_update"
    /\ LET id == req[h].appointment_id
       IN  IF req[h].slot_id \in SlotIds
           THEN /\ appointments' =
                       [appointments EXCEPT
                           ![id].slot_id = req[h].slot_id,
                           ![id].appointment_date = req[h].date,
                           ![id].appointment_time = req[h].time]
                /\ req' = [req EXCEPT ![h].pc = "resched_mark"]
                /\ UNCHANGED trip
           ELSE /\ req' = [req EXCEPT ![h] = Respond(req[h], ServerError)]
                /\ trip' = TripAfter(req[h], ServerError)
                /\ UNCHANGED appointments
    /\ UNCHANGED <<appointment_slots, observe, agents>>

\* lines 155-165: mark the new slot unavailable and answer 200
RescheduleMarkNew(h) ==
    /\ req[h].pc = "resched_mark"
    /\ appointment_slots' =
           UpdateSlot(appointment_slots, req[h].user, req[h].slot_id, FALSE)
    /\ req' = [req EXCEPT ![h] = Respond(req[h], Ok)]
    /\ trip' = TripAfter(req[h], Ok)
    /\ UNCHANGED <<appointments, observe, agents>>

\* ---------------------------------------------------- cancel_appointment
\* lines 169-184: read the caller's own appointment, answer 404 without it
CancelSelect(h, u, id) ==
    /\ req[h].pc = "idle"
    /\ LET a == SelectOwnAppointment(appointments, id, u)
           r == [IdleReq EXCEPT !.action = "cancel_appointment", !.user = u,
                     !.appointment_id = id, !.appointment = a]
       IN  IF a = NoAppointment
           THEN /\ req' = [req EXCEPT ![h] =
                                Respond(r, AppointmentNotFound)]
                /\ trip' = TripAfter(r, AppointmentNotFound)
           ELSE /\ req' = [req EXCEPT ![h] = [r EXCEPT !.pc = "cancel_status"]]
                /\ UNCHANGED trip
    /\ UNCHANGED <<appointment_slots, appointments, observe, agents>>

\* cancel_appointment that deletes the row in place of the status update
CancelSetStatus_Delete(h) ==
    /\ req[h].pc = "cancel_status"
    /\ appointments' =
           [i \in 1..(Len(appointments) - 1) |->
               IF i < req[h].appointment_id
               THEN appointments[i] ELSE appointments[i + 1]]
    /\ req' = [req EXCEPT ![h].pc = "cancel_free"]
    /\ UNCHANGED <<appointment_slots, aux>>

\* cancel_appointment going on to free the slot without the status update
\* (lines 186-190 left out)
CancelSetStatus_Skipped(h) ==
    /\ req[h].pc = "cancel_status"
    /\ req' = [req EXCEPT ![h].pc = "cancel_free"]
    /\ UNCHANGED <<appointment_slots, appointments, aux>>

\* lines 186-190: set status 'cancelled', whatever the status was
CancelSetStatus(h) ==
    /\ req[h].pc = "cancel_status"
    /\ appointments' =
           [appointments EXCEPT ![req[h].appointment_id].status = "cancelled"]
    /\ req' = [req EXCEPT ![h].pc = "cancel_free"]
    /\ UNCHANGED <<appointment_slots, aux>>

\* cancel_appointment answering without its slot update (lines 192-196 left
\* out)
CancelFreeSlot_NoRelease(h) ==
    /\ req[h].pc = "cancel_free"
    /\ req' = [req EXCEPT ![h] = Respond(req[h], Ok)]
    /\ trip' = TripAfter(req[h], Ok)
    /\ UNCHANGED <<appointment_slots, appointments, observe, agents>>

\* lines 192-202: free the slot the appointment row named when it was read
CancelFreeSlot(h) ==
    /\ req[h].pc = "cancel_free"
    /\ appointment_slots' = UpdateSlot(appointment_slots, req[h].user,
                                       req[h].appointment.slot_id, TRUE)
    /\ req' = [req EXCEPT ![h] = Respond(req[h], Ok)]
    /\ trip' = TripAfter(req[h], Ok)
    /\ UNCHANGED <<appointments, observe, agents>>

\* ------------------------------------------- requests that only read
\* The actions the booking agent's switch names.
BookingActions ==
    {"get_slots", "book_appointment", "reschedule_appointment",
     "cancel_appointment", "get_my_appointments"}

\* a request without a valid token that is let through to cancel_appointment
\* (lines 27-33 left out, and the row read whoever its patient is)
Unauthorized_Admitted(h, a, id) ==
    /\ req[h].pc = "idle"
    /\ LET ap == SelectOwnAppointment_AnyCaller(appointments, id, NoUser)
           r == [IdleReq EXCEPT !.action = a, !.user = NoUser,
                     !.appointment_id = id, !.appointment = ap]
       IN  IF a = "cancel_appointment" /\ ap # NoAppointment
           THEN /\ req' = [req EXCEPT ![h] = [r EXCEPT !.pc = "cancel_status"]]
                /\ UNCHANGED trip
           ELSE /\ req' = [req EXCEPT ![h] = Respond(r, Unauthorized401)]
                /\ trip' = TripAfter(r, Unauthorized401)
    /\ UNCHANGED <<appointment_slots, appointments, observe, agents>>

\* lines 25-33: auth.getUser() yields no user; 401 before the body is read.
\* The record keeps the action and appointment id the request carried.
Unauthorized(h, a, id) ==
    /\ req[h].pc = "idle"
    /\ LET r == [IdleReq EXCEPT !.action = a, !.user = NoUser,
                     !.appointment_id = id]
       IN  /\ req' = [req EXCEPT ![h] = Respond(r, Unauthorized401)]
           /\ trip' = TripAfter(r, Unauthorized401)
    /\ UNCHANGED <<appointment_slots, appointments, observe, agents>>

\* lines 229-233: the default branch of the switch
UnknownAction(h, u) ==
    /\ req[h].pc = "idle"
    /\ LET r == [IdleReq EXCEPT !.action = "unknown", !.user = u]
       IN  /\ req' = [req EXCEPT ![h] = Respond(r, UnknownAction400)]
           /\ trip' = TripAfter(r, UnknownAction400)
    /\ UNCHANGED <<appointment_slots, appointments, observe, agents>>

\* lines 40-67: get_slots selects from appointment_slots and answers 200
GetSlots(h, u) ==
    /\ req[h].pc = "idle"
    /\ LET r == [IdleReq EXCEPT !.action = "get_slots", !.user = u]
       IN  /\ req' = [req EXCEPT ![h] = Respond(r, Ok)]
           /\ trip' = TripAfter(r, Ok)
    /\ UNCHANGED <<appointment_slots, appointments, observe, agents>>

\* lines 205-227: get_my_appointments selects the caller's rows, answers 200
GetMyAppointments(h, u) ==
    /\ req[h].pc = "idle"
    /\ LET r == [IdleReq EXCEPT !.action = "get_my_appointments", !.user = u]
       IN  /\ req' = [req EXCEPT ![h] = Respond(r, Ok)]
           /\ trip' = TripAfter(r, Ok)
    /\ UNCHANGED <<appointment_slots, appointments, observe, agents>>

\* The analytics function: a service-role client, the caller optional
\* (NoUser is anonymous); counts and selects only, then 200.
Analytics(h, u) ==
    /\ req[h].pc = "idle"
    /\ LET r == [IdleReq EXCEPT !.action = "analytics", !.user = u]
       IN  /\ req' = [req EXCEPT ![h] = Respond(r, Ok)]
           /\ trip' = TripAfter(r, Ok)
    /\ UNCHANGED <<appointment_slots, appointments, observe, agents>>

\* questionnaire agent, get_questionnaire: selects from questionnaires
GetQuestionnaire(h, u, q) ==
    /\ sub[h].pc = "idle"
    /\ sub' = [sub EXCEPT ![h] =
                   [IdleSub EXCEPT !.pc = "done",
                       !.action = "get_questionnaire", !.user = u,
                       !.questionnaire_id = q, !.response = Ok]]
    /\ UNCHANGED <<appointment_slots, appointments, req, observe, trip,
                   questionnaire_responses, reminders, saga, others>>

\* questionnaire agent, get_responses: 400 without appointment_id (id 0),
\* otherwise a select from questionnaire_responses
GetResponses(h, u, id) ==
    /\ sub[h].pc = "idle"
    /\ sub' = [sub EXCEPT ![h] =
                   [IdleSub EXCEPT !.pc = "done", !.action = "get_responses",
                       !.user = u, !.appointment_id = id,
                       !.response = IF id = 0 THEN AppointmentIdRequired
                                              ELSE Ok]]
    /\ UNCHANGED <<appointment_slots, appointments, req, observe, trip,
                   questionnaire_responses, reminders, saga, others>>

\* reminder agent, get_reminders: a select from reminders, of one
\* appointment or (id 0) of all the caller may see
GetReminders(h, u, id) ==
    /\ rem[h].pc = "idle"
    /\ rem' = [rem EXCEPT ![h] =
                   [IdleRem EXCEPT !.pc = "done", !.action = "get_reminders",
                       !.user = u, !.appointment_id = id, !.response = Ok]]
    /\ UNCHANGED <<appointment_slots, appointments, req, observe, trip,
                   questionnaire_responses, reminders, sub, saga, listing,
                   snap>>

\* reminder agent, get_reminder_logs: a select from reminder_logs
GetReminderLogs(h, u) ==
    /\ rem[h].pc = "idle"
    /\ rem' = [rem EXCEPT ![h] =
                   [IdleRem EXCEPT !.pc = "done",
                       !.action = "get_reminder_logs", !.user = u,
                       !.response = Ok]]
    /\ UNCHANGED <<appointment_slots, appointments, req, observe, trip,
                   questionnaire_responses, reminders, sub, saga, listing,
                   snap>>

\* ------------------------------------------------------------- complete
\* The administrative transition confirmed -> completed.  No handler of the
\* repository performs it; the status column admits the value.
Complete(id) ==
    /\ id \in 1..Len(appointments)
    /\ appointments[id].status = "confirmed"
    /\ appointments' = [appointments EXCEPT ![id].status = "completed"]
    /\ UNCHANGED <<appointment_slots, req, aux>>

\* The response has been sent; the handler is free for the next request.
Close(h) ==
    /\ req[h].pc = "done"
    /\ req' = [req EXCEPT ![h] = IdleReq]
    /\ UNCHANGED <<appointment_slots, appointments, aux>>

\* ------------------------------------- questionnaire agent: submit_response
Questionnaires == {"q1"}    \* rows of questionnaires
Answers == {1, 2}           \* values of the payload's `responses`

\* rows of questionnaire_responses for one (appointment_id, questionnaire_id)
ResponsesFor(table, id, q) ==
    {r \in table : r.appointment_id = id /\ r.questionnaire_id = q}

\* .upsert({...}, { onConflict: 'appointment_id,questionnaire_id' }): INSERT
\* ... ON CONFLICT DO UPDATE.  Without a conflicting row the row is inserted
\* (policy "Patients can submit responses").  With one, the statement takes
\* its UPDATE path; questionnaire_responses has no UPDATE policy, so the
\* existing row fails the row-level security check, the statement raises an
\* error and the table stays as it is.
UpsertRejected(table, id, q) == ResponsesFor(table, id, q) # {}

Upsert(table, u, id, q, ans) ==
    IF UpsertRejected(table, id, q)
    THEN table
    ELSE table \cup {[appointment_id |-> id, questionnaire_id |-> q,
                       patient_id |-> u, responses |-> ans]}

\* submit_response going on to its upsert whatever the select returned
\* (lines 100-105 left out)
SubmitSelect_Unchecked(h, u, id, q, ans) ==
    /\ sub[h].pc = "idle"
    /\ sub' = [sub EXCEPT ![h] =
                   [IdleSub EXCEPT !.pc = "submit_upsert",
                       !.action = "submit_response", !.user = u,
                       !.appointment_id = id, !.questionnaire_id = q,
                       !.responses = ans]]
    /\ UNCHANGED <<appointment_slots, appointments, req, observe, trip,
                   questionnaire_responses, reminders, saga, others>>

\* lines 89-104: read the caller's own appointment, answer 404 without it
SubmitSelect(h, u, id, q, ans) ==
    /\ sub[h].pc = "idle"
    /\ LET r == [IdleSub EXCEPT !.action = "submit_response", !.user = u,
                     !.appointment_id = id, !.questionnaire_id = q,
                     !.responses = ans]
       IN  IF SelectOwnAppointment(appointments, id, u) = NoAppointment
           THEN sub' = [sub EXCEPT ![h] =
                           [r EXCEPT !.pc = "done",
                                     !.response = AppointmentNotFound]]
           ELSE sub' = [sub EXCEPT ![h] = [r EXCEPT !.pc = "submit_upsert"]]
    /\ UNCHANGED <<appointment_slots, appointments, req, observe, trip,
                   questionnaire_responses, reminders, saga, others>>

\* lines 106-131: upsert the response; an error of the statement is thrown
\* (500), otherwise the answer is 200
SubmitUpsert(h) ==
    /\ sub[h].pc = "submit_upsert"
    /\ LET id == sub[h].appointment_id
           q == sub[h].questionnaire_id
       IN  /\ questionnaire_responses' =
                  Upsert(questionnaire_responses, sub[h].user, id, q,
                         sub[h].responses)
           /\ sub' = [sub EXCEPT ![h].pc = "done",
                         ![h].response =
                             IF UpsertRejected(questionnaire_responses, id, q)
                             THEN ServerError ELSE Ok]
    /\ UNCHANGED <<appointment_slots, appointments, req, observe, trip,
                   reminders, saga, others>>

\* The response has been sent; the handler is free for the next request.
SubmitClose(h) ==
    /\ sub[h].pc = "done"
    /\ sub' = [sub EXCEPT ![h] = IdleSub]
    /\ UNCHANGED <<appointment_slots, appointments, req, observe, trip,
                   questionnaire_responses, reminders, saga, others>>

\* ---------------------------------------- reminder agent: schedule_reminder
\* Row-level security of appointments for SELECT: the patient's own rows
\* and the rows of the doctor whose account the caller is.
AppointmentVisible(appts, id, u) ==
    /\ id \in 1..Len(appts)
    /\ \/ appts[id].patient_id = u
       \/ DoctorUser(appts[id].doctor_id) = u

\* schedule_reminder going on to its insert whatever the select returned
\* (lines 230-235 left out)
RemindSelect_Unchecked(h, u, id) ==
    /\ rem[h].pc = "idle"
    /\ rem' = [rem EXCEPT ![h] =
                   [IdleRem EXCEPT !.pc = "remind_insert",
                       !.action = "schedule_reminder", !.user = u,
                       !.appointment_id = id]]
    /\ UNCHANGED <<appointment_slots, appointments, req, observe, trip,
                   questionnaire_responses, reminders, sub, saga, listing,
                   snap>>

\* lines 221-236: read the appointment by id, answer 404 when no row is
\* visible to the caller
RemindSelect(h, u, id) ==
    /\ rem[h].pc = "idle"
    /\ LET r == [IdleRem EXCEPT !.action = "schedule_reminder", !.user = u,
                     !.appointment_id = id]
       IN  IF AppointmentVisible(appointments, id, u)
           THEN rem' = [rem EXCEPT ![h] = [r EXCEPT !.pc = "remind_insert"]]
           ELSE rem' = [rem EXCEPT ![h] =
                           [r EXCEPT !.pc = "done",
                                     !.response = AppointmentNotFound]]
    /\ UNCHANGED <<appointment_slots, appointments, req, observe, trip,
                   questionnaire_responses, reminders, sub, saga, listing,
                   snap>>

\* lines 238-253: insert the reminder with status 'pending'.  reminders has
\* row-level security and policies for SELECT only, so the insert of any
\* caller is refused; the error is thrown and answered with 500.  The
\* update to status 'sent' (lines 256-262) and the 200 are not reached.
RemindInsert(h) ==
    /\ rem[h].pc = "remind_insert"
    /\ rem' = [rem EXCEPT ![h].pc = "done", ![h].response = ServerError]
    /\ UNCHANGED <<appointment_slots, appointments, req, observe, trip,
                   questionnaire_responses, reminders, sub, saga, listing,
                   snap>>

\* The response has been sent; the handler is free for the next request.
RemindClose(h) ==
    /\ rem[h].pc = "done"
    /\ rem' = [rem EXCEPT ![h] = IdleRem]
    /\ UNCHANGED <<appointment_slots, appointments, req, observe, trip,
                   questionnaire_responses, reminders, sub, saga, listing,
                   snap>>

\* ----------------------------------------------------- automatic booking
\* The listing: the available slots, ordered by date, then time, then
\* doctor id.
Before(s, r) ==
    LET a == SlotRow(s)
        b == SlotRow(r)
    IN  \/ a.slot_date < b.slot_date
        \/ a.slot_date = b.slot_date /\ a.slot_time < b.slot_time
        \/ /\ a.slot_date = b.slot_date /\ a.slot_time = b.slot_time
           /\ a.doctor_id = "d1" /\ b.doctor_id = "d2"

First(S) == CHOOSE s \in S : \A r \in S \ {s} : Before(s, r)

Listing(slots) == {s \in SlotIds : slots[s]}

\* the available slots of a preferred date and time
Matching(slots, dt, tm) ==
    {s \in Listing(slots) :
        SlotRow(s).slot_date = dt /\ SlotRow(s).slot_time = tm}

SlotUnavailable ==
    [status |-> 409, success |-> FALSE, error |-> "SlotUnavailable"]

\* handlePreBookingComplete in automatic mode: read the listing and put the
\* first slot's date and time into the preview; without a listed slot the
\* preview shows tomorrow and a fixed time of day
AutoPreview(u, tm) ==
    /\ saga.pc = "idle"
    /\ LET L == Listing(appointment_slots)
       IN  saga' = IF L # {}
                   THEN [IdleSaga EXCEPT !.pc = "preview", !.user = u,
                            !.listed = First(L),
                            !.date = SlotRow(First(L)).slot_date,
                            !.time = SlotRow(First(L)).slot_time,
                            !.seen = Len(appointments)]
                   ELSE [IdleSaga EXCEPT !.pc = "preview", !.user = u,
                            !.listed = NoSlot, !.date = 1, !.time = tm,
                            !.seen = Len(appointments)]
    /\ UNCHANGED <<appointment_slots, appointments, req, observe, trip,
                   questionnaire_responses, reminders, sub, others>>

\* step 1 that goes on to step 2 after its failure
SagaReserve_RunsOn ==
    /\ saga.pc = "preview"
    /\ Len(appointments) + BookingsInFlight < MaxAppts
    /\ Matching(appointment_slots, saga.date, saga.time) = {}
    /\ saga' = [saga EXCEPT !.pc = "step2"]
    /\ UNCHANGED <<appointment_slots, appointments, req, observe, trip,
                   questionnaire_responses, reminders, sub, others>>

\* Step 1 of the orchestrator, on the request that handleAutomaticBooking-
\* Confirm sends with the preview's date and time: pick the earliest
\* available slot that matches, reserve it and create the appointment in
\* one conditional write; without such a slot answer with the failure.
SagaReserve ==
    /\ saga.pc = "preview"
    /\ Len(appointments) + BookingsInFlight < MaxAppts
    /\ LET M == Matching(appointment_slots, saga.date, saga.time)
       IN  IF M = {}
           THEN /\ saga' = [saga EXCEPT !.pc = "respond",
                                        !.response = SlotUnavailable]
                /\ UNCHANGED <<appointment_slots, appointments>>
           ELSE LET s == First(M)
                    row == [id |-> Len(appointments) + 1,
                            patient_id |-> saga.user,
                            doctor_id |-> SlotRow(s).doctor_id,
                            slot_id |-> s,
                            appointment_date |-> SlotRow(s).slot_date,
                            appointment_time |-> SlotRow(s).slot_time,
                            status |-> "confirmed"]
                IN  /\ appointment_slots' =
                           [appointment_slots EXCEPT ![s] = FALSE]
                    /\ appointments' = Append(appointments, row)
                    /\ saga' = [saga EXCEPT !.pc = "step2",
                                            !.appointment_id = row.id]
    /\ UNCHANGED <<req, observe, trip, questionnaire_responses, reminders,
                   sub, others>>

\* step 2 that compensates step 1 when the reminder fails
SagaReminder_Rollback(ok) ==
    /\ saga.pc = "step2"
    /\ reminders' =
          IF ok THEN reminders \cup {[appointment_id |-> saga.appointment_id,
                                       reminder_type |-> "email",
                                       status |-> "pending"]}
                ELSE reminders
    /\ appointments' =
          IF ok THEN appointments
                ELSE [appointments EXCEPT
                         ![saga.appointment_id].status = "cancelled"]
    /\ appointment_slots' =
          IF ok THEN appointment_slots
                ELSE [appointment_slots EXCEPT
                         ![appointments[saga.appointment_id].slot_id] = TRUE]
    /\ saga' = [saga EXCEPT !.pc = "step3", !.reminder_scheduled = ok]
    /\ UNCHANGED <<req, observe, trip, questionnaire_responses, sub, others>>

\* Step 2: the reminder scheduler either stores a pending reminder for the
\* appointment or fails; its failure is recorded and step 3 follows.
SagaReminder(ok) ==
    /\ saga.pc = "step2"
    /\ reminders' =
          IF ok THEN reminders \cup {[appointment_id |-> saga.appointment_id,
                                       reminder_type |-> "email",
                                       status |-> "pending"]}
                ELSE reminders
    /\ saga' = [saga EXCEPT !.pc = "step3", !.reminder_scheduled = ok]
    /\ UNCHANGED <<appointment_slots, appointments, req, observe, trip,
                   questionnaire_responses, sub, others>>

\* Step 3: the questionnaire dispatcher either makes sure the appointment
\* has the default questionnaire with the guessed answers or fails; the
\* orchestrator answers with a success either way.
SagaQuestionnaire(ok) ==
    /\ saga.pc = "step3"
    /\ questionnaire_responses' =
          IF ok /\ ResponsesFor(questionnaire_responses,
                                saga.appointment_id, "default") = {}
          THEN questionnaire_responses \cup
                   {[appointment_id |-> saga.appointment_id,
                     questionnaire_id |-> "default",
                     patient_id |-> saga.user, responses |-> 0]}
          ELSE questionnaire_responses
    /\ saga' = [saga EXCEPT !.pc = "respond", !.questionnaire_sent = ok,
                            !.response = Ok]
    /\ UNCHANGED <<appointment_slots, appointments, req, observe, trip,
                   reminders, sub, others>>

\* automaticBookingWithCrewAI: the result the client makes of the response
AutoResult ==
    /\ saga.pc = "respond"
    /\ saga' = [saga EXCEPT !.pc = "result",
                    !.result =
                        IF saga.response.status = 200
                        THEN [success |-> TRUE,
                              reminder_scheduled |-> saga.reminder_scheduled,
                              questionnaire_sent |-> saga.questionnaire_sent,
                              message |-> "Automatic booking successful"]
                        ELSE [NoResult EXCEPT
                                 !.message = saga.response.error]]
    /\ UNCHANGED <<appointment_slots, appointments, req, observe, trip,
                   questionnaire_responses, reminders, sub, others>>

\* handleAutomaticBookingConfirm after the result: a toast either way, the
\* data is fetched again, the answers of the pre-booking form are dropped
AutoDone ==
    /\ saga.pc = "result"
    /\ saga' = IdleSaga
    /\ UNCHANGED <<appointment_slots, appointments, req, observe, trip,
                   questionnaire_responses, reminders, sub, others>>

\* ------------------------------------------------- get_slots and the pick
\* Slot tables the listing is asked of: up to three rows of
\* appointment_slots, no two with the same (doctor_id, slot_date, slot_time).
ListedSlotIds == {"a", "b", "c"}
SlotsLimit == 20

SlotRows ==
    [doctor_id : Doctors, slot_date : Dates, slot_time : Times,
     is_available : BOOLEAN]

SlotTables ==
    {tb \in [ListedSlotIds -> SlotRows] :
        \A x, y \in ListedSlotIds :
            (x # y) => \/ tb[x].doctor_id # tb[y].doctor_id
                       \/ tb[x].slot_date # tb[y].slot_date
                       \/ tb[x].slot_time # tb[y].slot_time}

\* .eq('is_available', true).gte('slot_date', today)
Listable(tb, today) ==
    {x \in DOMAIN tb : tb[x].is_available /\ tb[x].slot_date >= today}

\* .order('slot_date').order('slot_time'): rows with the same date and time
\* come in whatever order the database yields them
OrderedBySlot(tb, q) ==
    \A i, j \in 1..Len(q) :
        (i < j) => \/ tb[q[i]].slot_date < tb[q[j]].slot_date
                   \/ /\ tb[q[i]].slot_date = tb[q[j]].slot_date
                      /\ tb[q[i]].slot_time <= tb[q[j]].slot_time

Prefix(q, n) == SubSeq(q, 1, IF Len(q) < n THEN Len(q) ELSE n)

\* lines 42-58: every result the query may return
get_slots(tb, today) ==
    LET L == Listable(tb, today)
        n == Cardinality(L)
    IN  {Prefix(q, SlotsLimit) :
            q \in {f \in [1..n -> L] :
                      /\ \A i, j \in 1..n : (i # j) => f[i] # f[j]
                      /\ OrderedBySlot(tb, f)}}

\* The dashboard asks for the listing of a slot table.
ListingFetch ==
    /\ listing.pc = "asked"
    /\ \E q \in get_slots(listing.table, listing.today) :
          listing' = [listing EXCEPT !.pc = "fetched", !.slots = q]
    /\ UNCHANGED <<appointment_slots, appointments, req, observe, trip,
                   questionnaire_responses, reminders, sub, saga, rem, snap>>

\* handlePreBookingComplete: availableSlots[0] of the rows whose
\* is_available is not false
ListingPick ==
    /\ listing.pc = "fetched"
    /\ LET availableSlots ==
               SelectSeq(listing.slots,
                         LAMBDA x : listing.table[x].is_available # FALSE)
       IN  listing' = [listing EXCEPT !.pc = "picked",
                          !.selectedSlot =
                              IF availableSlots # <<>>
                              THEN availableSlots[1] ELSE NoSlot]
    /\ UNCHANGED <<appointment_slots, appointments, req, observe, trip,
                   questionnaire_responses, reminders, sub, saga, rem, snap>>

\* The response has been sent and the handler is free for the next
\* request, which will find the tables as they are now.
CloseSnap(h) ==
    /\ req[h].pc = "done"
    /\ req' = [req EXCEPT ![h] = IdleReq]
    /\ snap' = <<appointment_slots, appointments>>
    /\ UNCHANGED <<appointment_slots, appointments, observe, trip,
                   questionnaire_responses, reminders, sub, saga, listing,
                   rem>>

\* ---------------------------------------------------------------- inputs
\* Payloads that copy the fields of a listed slot row, as a client that
\* books from the get_slots listing sends them.
ListedDoctors(s) == IF s \in SlotIds THEN {SlotRow(s).doctor_id} ELSE {NoDoctor}
ListedDates(s) == IF s \in SlotIds THEN {SlotRow(s).slot_date} ELSE {1}
ListedTimes(s) == IF s \in SlotIds THEN {SlotRow(s).slot_time} ELSE {1}

\* Handler h receives a request that names a slot id of S and makes its
\* first database call.
Start(h, S) ==
    \/ \E u \in Users, s \in S :
         \E d \in ListedDoctors(s), dt \in ListedDates(s), tm \in ListedTimes(s) :
            BookCheckSlot(h, u, d, s, dt, tm)
    \/ \E u \in Users, id \in ApptIds, s \in S :
         \E dt \in ListedDates(s), tm \in ListedTimes(s) :
            RescheduleSelect(h, u, id, s, dt, tm)
    \/ \E u \in Users, id \in ApptIds : CancelSelect(h, u, id)

\* Handler h makes the next database call of its request.
Continue(h) ==
    \/ BookInsert(h)
    \/ BookMarkSlot(h)
    \/ RescheduleFreeOld(h)
    \/ RescheduleUpdate(h)
    \/ RescheduleMarkNew(h)
    \/ CancelSetStatus(h)
    \/ CancelFreeSlot(h)

\* Requests of any callers for existing slots, interleaved at every
\* database call.
Next == \E h \in Handlers : Start(h, SlotIds) \/ Continue(h)

Spec == Init /\ [][Next]_vars

\* No other handler has a request open.
Quiet(h) == \A g \in Handlers \ {h} : req[g].pc = "idle"

\* One request at a time: a handler runs from its first database call to
\* its response, and is closed, before the next request is received.
NextSeq ==
    \E h \in Handlers :
        \/ Quiet(h) /\ Start(h, SlotIds \cup {NoSlot})
        \/ Continue(h)
        \/ Close(h)

SpecSeq == InitObserved /\ [][NextSeq]_vars

\* One request at a time, and between requests an administrator may
\* complete an appointment.
NextAdmin ==
    \/ NextSeq
    \/ \E id \in ApptIds : (\A h \in Handlers : ~InFlight(h)) /\ Complete(id)

SpecAdmin == InitObserved /\ [][NextAdmin]_vars

\* One book_appointment request per handler, for an existing slot,
\* interleaved at every database call; every answer stays on record.
NextRace ==
    \E h \in Handlers :
        \/ \E u \in Users, s \in SlotIds :
             \E d \in ListedDoctors(s), dt \in ListedDates(s),
                tm \in ListedTimes(s) :
                BookCheckSlot(h, u, d, s, dt, tm)
        \/ BookInsert(h)
        \/ BookMarkSlot(h)

SpecRace == InitObserved /\ [][NextRace]_vars

\* Handler h receives a request whose payload fields are chosen freely and
\* independently of each other, and makes its first database call.
StartAny(h) ==
    \/ \E u \in Users, d \in Doctors \cup {NoDoctor}, s \in SlotIds,
          dt \in Dates, tm \in Times :
            BookCheckSlot(h, u, d, s, dt, tm)
    \/ \E u \in Users, id \in ApptIds, s \in SlotIds, dt \in Dates,
          tm \in Times :
            RescheduleSelect(h, u, id, s, dt, tm)
    \/ \E u \in Users, id \in ApptIds : CancelSelect(h, u, id)

\* One request at a time, with any payload.
NextPayload ==
    \E h \in Handlers :
        \/ Quiet(h) /\ StartAny(h)
        \/ Continue(h)
        \/ Close(h)

SpecPayload == InitObserved /\ [][NextPayload]_vars

\* Bookings of listed slots one at a time, and beside them submit_response
\* requests of any callers, interleaved at every database call.
NextSubmit ==
    \E h \in Handlers :
        \/ /\ Quiet(h)
           /\ \E u \in Users, s \in SlotIds :
                 \E d \in ListedDoctors(s), dt \in ListedDates(s),
                    tm \in ListedTimes(s) :
                    BookCheckSlot(h, u, d, s, dt, tm)
        \/ BookInsert(h)
        \/ BookMarkSlot(h)
        \/ Close(h)
        \/ \E u \in Users, id \in ApptIds, q \in Questionnaires,
              ans \in Answers :
                SubmitSelect(h, u, id, q, ans)
        \/ SubmitUpsert(h)
        \/ SubmitClose(h)

SpecSubmit == InitObserved /\ [][NextSubmit]_vars

\* Automatic bookings one after the other, and beside them direct
\* book_appointment requests for existing slots, interleaved at every
\* database call and every step of the orchestrator.
NextAuto ==
    \/ \E h \in Handlers :
          \/ \E u \in Users, s \in SlotIds :
                \E d \in ListedDoctors(s), dt \in ListedDates(s),
                   tm \in ListedTimes(s) :
                   BookCheckSlot(h, u, d, s, dt, tm)
          \/ BookInsert(h)
          \/ BookMarkSlot(h)
          \/ Close(h)
    \/ \E u \in Users, tm \in Times : AutoPreview(u, tm)
    \/ SagaReserve
    \/ \E ok \in BOOLEAN : SagaReminder(ok)
    \/ \E ok \in BOOLEAN : SagaQuestionnaire(ok)
    \/ AutoResult
    \/ AutoDone

SpecAuto == InitObserved /\ [][NextAuto]_vars

\* The listing of any slot table on any day, and the dashboard's pick.
InitListing ==
    /\ Tables /\ observe = TRUE /\ trip = NoTrip
    /\ listing \in {[NoListing EXCEPT !.pc = "asked", !.table = tb,
                                       !.today = d] :
                        tb \in SlotTables, d \in Dates}

NextListing == ListingFetch \/ ListingPick

SpecListing == InitListing /\ [][NextListing]_vars

\* One request at a time, among them requests that the database refuses
\* partway: a booking with a doctor_id that has no row, a reschedule to a
\* slot id that has no row.
NextErr ==
    \E h \in Handlers :
        \/ Quiet(h) /\ Start(h, SlotIds \cup {NoSlot})
        \/ /\ Quiet(h)
           /\ \E u \in Users, s \in SlotIds :
                 \E dt \in ListedDates(s), tm \in ListedTimes(s) :
                    BookCheckSlot(h, u, NoDoctor, s, dt, tm)
        \/ Continue(h)
        \/ CloseSnap(h)

SpecErr == InitObserved /\ [][NextErr]_vars

\* Automatic bookings and direct bookings as in NextAuto, and beside them
\* schedule_reminder requests of any callers.
NextRemind ==
    \/ NextAuto
    \/ \E h \in Handlers :
          \/ \E u \in Users, id \in ApptIds : RemindSelect(h, u, id)
          \/ RemindInsert(h)
          \/ RemindClose(h)

SpecRemind == InitObserved /\ [][NextRemind]_vars

\* No handler of any agent has a request open.
AllIdle ==
    \A h \in Handlers :
        req[h].pc = "idle" /\ sub[h].pc = "idle" /\ rem[h].pc = "idle"

\* Requests to the booking, questionnaire and reminder agents and to the
\* analytics function, with and without a valid token, one at a time.
NextFrame ==
    \E h \in Handlers :
        \/ AllIdle /\ Start(h, SlotIds \cup {NoSlot})
        \/ AllIdle /\ \E a \in BookingActions, id \in ApptIds :
                         Unauthorized(h, a, id)
        \/ AllIdle /\ \E u \in Users : UnknownAction(h, u)
        \/ AllIdle /\ \E u \in Users : GetSlots(h, u)
        \/ AllIdle /\ \E u \in Users : GetMyAppointments(h, u)
        \/ AllIdle /\ \E u \in Users \cup {NoUser} : Analytics(h, u)
        \/ Continue(h)
        \/ Close(h)
        \/ AllIdle /\ \E u \in Users, id \in ApptIds, q \in Questionnaires,
                         ans \in Answers : SubmitSelect(h, u, id, q, ans)
        \/ SubmitUpsert(h)
        \/ SubmitClose(h)
        \/ AllIdle /\ \E u \in Users, q \in Questionnaires :
                         GetQuestionnaire(h, u, q)
        \/ AllIdle /\ \E u \in Users, id \in ApptIds \cup {0} :
                         GetResponses(h, u, id)
        \/ AllIdle /\ \E u \in Users, id \in ApptIds : RemindSelect(h, u, id)
        \/ RemindInsert(h)
        \/ RemindClose(h)
        \/ AllIdle /\ \E u \in Users, id \in ApptIds \cup {0} :
                         GetReminders(h, u, id)
        \/ AllIdle /\ \E u \in Users : GetReminderLogs(h, u)

SpecFrame == InitObserved /\ [][NextFrame]_vars

\* ------------------------------------------------------------ vocabulary
Rows == 1..Len(appointments)
Referencing(s) == {id \in Rows : appointments[id].slot_id = s}
Active(s) ==
    {id \in Referencing(s) : appointments[id].status \in {"confirmed", "pending"}}
Answered(h) == req[h].pc = "done"
RemindersFor(id) == {r \in reminders : r.appointment_id = id}
NoRequestOpen == \A h \in Handlers : req[h].pc \in {"idle", "done"}

\* Slot row a comes before slot row b by date, then time, then doctor id.
RowBefore(a, b) ==
    \/ a.slot_date < b.slot_date
    \/ a.slot_date = b.slot_date /\ a.slot_time < b.slot_time
    \/ /\ a.slot_date = b.slot_date /\ a.slot_time = b.slot_time
       /\ a.doctor_id = "d1" /\ b.doctor_id = "d2"

\* ------------------------------------------------------------------- C1
\* C1: when every handler has answered a book_appointment for one and the
\* same slot, exactly one answer is a success, every other answer is the
\* slot-unavailable error, the slot is unavailable and exactly one
\* appointment references it.
C1_ExactlyOneBookingWins ==
    \A s \in SlotIds :
        (\A h \in Handlers : Answered(h) /\ req[h].action = "book_appointment"
                                /\ req[h].slot_id = s)
        => /\ Cardinality({h \in Handlers : req[h].response.success}) = 1
           /\ \A h \in Handlers :
                 ~req[h].response.success
                     => req[h].response = SlotNoLongerAvailable
           /\ ~appointment_slots[s]
           /\ Cardinality(Referencing(s)) = 1

\* ------------------------------------------------------------------- C2
\* C2: no two appointments that are not cancelled reference the same slot.
C2_NoSharedSlot ==
    \A a, b \in Rows :
        (a # b /\ appointments[a].status # "cancelled"
               /\ appointments[b].status # "cancelled")
        => appointments[a].slot_id # appointments[b].slot_id

\* ------------------------------------------------------------------- C3
\* C3: whenever no request is open (every request so far has been answered)
\* and no appointment has been completed, a slot is unavailable if and only
\* if exactly one confirmed or pending appointment references it.
C3_UnavailableIffHeld ==
    (NoRequestOpen /\ \A id \in Rows : appointments[id].status # "completed")
    => \A s \in SlotIds :
          (~appointment_slots[s]) <=> (Cardinality(Active(s)) = 1)

\* ------------------------------------------------------------------- C4
\* C4: a reschedule_appointment of the caller's own appointment to another
\* slot that was unavailable when the request was received is answered with the slot-unavailable error, the old slot is
\* unavailable afterwards, and the appointment keeps its old slot, date and
\* time.
C4_RescheduleToTakenSlotFails ==
    \A h \in Handlers :
        (/\ Answered(h)
         /\ req[h].action = "reschedule_appointment"
         /\ req[h].appointment # NoAppointment
         /\ req[h].slot_id \in SlotIds
         /\ req[h].slot_id # req[h].appointment.slot_id
         /\ ~req[h].new_slot_was_available)
        => /\ req[h].response = SlotNoLongerAvailable
           /\ ~appointment_slots[req[h].appointment.slot_id]
           /\ LET a == appointments[req[h].appointment_id]
              IN  /\ a.slot_id = req[h].appointment.slot_id
                  /\ a.appointment_date = req[h].appointment.appointment_date
                  /\ a.appointment_time = req[h].appointment.appointment_time

\* ------------------------------------------------------------------- C5
\* C5: whenever a step of a reschedule_appointment from slot A to another
\* slot B turns A from unavailable to available, B is already unavailable
\* and the appointment already references B.
C5_NewReservedBeforeOldReleased ==
    [][\A h \in Handlers :
          LET A == req[h].appointment.slot_id
              B == req[h].slot_id
          IN  (/\ req[h].action = "reschedule_appointment"
               /\ InFlight(h) /\ req'[h] # req[h]
               /\ A # B
               /\ ~appointment_slots[A] /\ appointment_slots'[A])
              => /\ B \in SlotIds /\ ~appointment_slots[B]
                 /\ appointments[req[h].appointment_id].slot_id = B]_vars

C7_CancelCancelledIsNoOp ==
    [][\A h \in Handlers :
          (/\ req[h].action = "cancel_appointment"
           /\ InFlight(h) /\ req'[h] # req[h]
           /\ req[h].appointment.status = "cancelled")
          => /\ appointments' = appointments
             /\ appointment_slots' = appointment_slots
             /\ Answered(h)' => req'[h].response = Ok]_vars

\* ------------------------------------------------------------------- C8
\* C8: every step of a cancel_appointment that read its appointment as
\* 'completed' leaves every appointment and every slot as it is, and its
\* answer is a failure.
C8_CancelCompletedFails ==
    [][\A h \in Handlers :
          (/\ req[h].action = "cancel_appointment"
           /\ InFlight(h) /\ req'[h] # req[h]
           /\ req[h].appointment.status = "completed")
          => /\ appointments' = appointments
             /\ appointment_slots' = appointment_slots
             /\ Answered(h)' => ~req'[h].response.success]_vars

\* ------------------------------------------------------------------- C9
\* C9: no step changes the status of an appointment that is 'cancelled' or
\* 'completed'.
C9_TerminalStatus ==
    [][\A id \in Rows :
          appointments[id].status \in {"cancelled", "completed"}
          => appointments'[id].status = appointments[id].status]_vars

\* ------------------------------------------------------------------ C10
\* C10: every step of a reschedule_appointment that read its appointment as
\* 'cancelled' or 'completed' leaves the appointment's slot reference and
\* every slot as it is, and its answer is a failure.
C10_RescheduleTerminalFails ==
    [][\A h \in Handlers :
          (/\ req[h].action = "reschedule_appointment"
           /\ InFlight(h) /\ req'[h] # req[h]
           /\ req[h].appointment.status \in {"cancelled", "completed"})
          => /\ appointments'[req[h].appointment_id].slot_id
                    = appointments[req[h].appointment_id].slot_id
             /\ appointment_slots' = appointment_slots
             /\ Answered(h)' => ~req'[h].response.success]_vars

\* ------------------------------------------------------------------ C11
\* C11: the step that receives a reschedule_appointment or a
\* cancel_appointment for an existing appointment whose patient_id is not
\* the caller answers the request with a failure and leaves every
\* appointment and every slot as it is.
C11_NotOwnerFails ==
    [][\A h \in Handlers :
          (/\ req[h].pc = "idle" /\ req'[h].pc # "idle"
           /\ req'[h].action \in {"reschedule_appointment", "cancel_appointment"}
           /\ req'[h].appointment_id \in Rows
           /\ appointments[req'[h].appointment_id].patient_id # req'[h].user)
          => /\ Answered(h)'
             /\ ~req'[h].response.success
             /\ appointments' = appointments
             /\ appointment_slots' = appointment_slots]_vars

\* a reschedule to a free slot, and a cancel, of another patient's confirmed
\* appointment have been refused
C11_Witness ==
    \E h \in Handlers :
        /\ Answered(h)
        /\ req[h].action = "reschedule_appointment"
        /\ req[h].appointment_id \in Rows
        /\ appointments[req[h].appointment_id].patient_id # req[h].user
        /\ appointments[req[h].appointment_id].status = "confirmed"
        /\ req[h].new_slot_was_available
        /\ req[h].response = AppointmentNotFound

\* ------------------------------------------------------------------ C12
\* C12: the step that receives a book_appointment for a slot that does not
\* exist or is unavailable at that moment answers the request with the
\* slot-unavailable error, creates no appointment and changes no slot.
C12_BookUnavailableFails ==
    [][\A h \in Handlers :
          (/\ req[h].pc = "idle" /\ req'[h].pc # "idle"
           /\ req'[h].action = "book_appointment"
           /\ (req'[h].slot_id \notin SlotIds
                  \/ ~appointment_slots[req'[h].slot_id]))
          => /\ Answered(h)'
             /\ req'[h].response = SlotNoLongerAvailable
             /\ appointments' = appointments
             /\ appointment_slots' = appointment_slots]_vars

\* a booking of an existing slot that an appointment holds, and that is
\* marked unavailable, has been refused
C12_Witness ==
    \E g \in Handlers :
        /\ Answered(g) /\ req[g].action = "book_appointment"
        /\ req[g].slot_id \in SlotIds
        /\ ~appointment_slots[req[g].slot_id]
        /\ Referencing(req[g].slot_id) # {}
        /\ req[g].response = SlotNoLongerAvailable
        /\ Len(appointments) = 1

\* ------------------------------------------------------------------ C13
\* C13: no appointment ever has status 'pending', and every step that adds
\* an appointment adds it with status 'confirmed'.
C13_CreatedConfirmedNeverPending ==
    /\ [](\A id \in Rows : appointments[id].status # "pending")
    /\ [][Len(appointments') > Len(appointments)
            => /\ Len(appointments') = Len(appointments) + 1
               /\ appointments'[Len(appointments')].status = "confirmed"]_vars

\* appointments have been booked, one of them rescheduled and cancelled,
\* the other is still confirmed
C13_Witness ==
    /\ Len(appointments) = 2
    /\ \E a, b \in Rows :
          /\ appointments[a].status = "cancelled"
          /\ appointments[a].doctor_id # SlotRow(appointments[a].slot_id).doctor_id
          /\ appointments[b].status = "confirmed"

\* ------------------------------------------------------------------ C14
\* C14: every slot-release write (the update to is_available = true of
\* cancel_appointment and of reschedule_appointment) on an existing slot
\* leaves that slot available, whether it is the first release of the slot
\* or a repeated one, and the request does not end in an error by it.
C14_ReleaseIdempotent ==
    [][\A h \in Handlers :
          (/\ req[h].pc \in {"resched_free", "cancel_free"}
           /\ req'[h] # req[h]
           /\ req[h].appointment.slot_id \in SlotIds)
          => /\ appointment_slots'[req[h].appointment.slot_id]
             /\ Answered(h)' => req'[h].response = Ok]_vars

\* ------------------------------------------------------------------ C15
\* C15: whenever no request is open, the slot that an appointment
\* references is unavailable if the appointment is not cancelled, and
\* available if it is cancelled.
C15_SlotReferenceHeld ==
    NoRequestOpen
    => \A id \in Rows :
          IF appointments[id].status = "cancelled"
          THEN appointment_slots[appointments[id].slot_id]
          ELSE ~appointment_slots[appointments[id].slot_id]

\* ------------------------------------------------------------------ C16
\* C16: when a book_appointment or a reschedule_appointment has answered
\* with a success, the appointment's appointment_date and appointment_time
\* are the slot_date and slot_time of the slot that its slot_id references.
C16_DateTimeMatchSlot ==
    \A h \in Handlers :
        (/\ Answered(h)
         /\ req[h].action \in {"book_appointment", "reschedule_appointment"}
         /\ req[h].response.success)
        => LET a == appointments[req[h].appointment_id]
           IN  /\ a.appointment_date = SlotRow(a.slot_id).slot_date
               /\ a.appointment_time = SlotRow(a.slot_id).slot_time

\* ------------------------------------------------------------------ C17
\* C17: when a submit_response of the appointment's owner completes for a
\* pair (appointment_id, questionnaire_id) that already has a stored
\* response (it is the later of two submissions, whether the two ran one
\* after the other or side by side), exactly one response is stored for the
\* pair and its answers are those of this later submission.
C17_LaterSubmissionStored ==
    [][\A h \in Handlers :
          LET id == sub[h].appointment_id
              q == sub[h].questionnaire_id
          IN  (/\ sub[h].pc = "submit_upsert" /\ sub'[h].pc = "done"
               /\ ResponsesFor(questionnaire_responses, id, q) # {})
              => LET stored == ResponsesFor(questionnaire_responses', id, q)
                 IN  /\ Cardinality(stored) = 1
                     /\ \A r \in stored : r.responses = sub[h].responses]_vars

\* ------------------------------------------------------------------ C18
\* C18: when an automatic booking whose step 1 created an appointment has
\* its result, and no reminder (no questionnaire) was stored for that
\* appointment because step 2 (step 3) failed, the result has success =
\* true and reminder_scheduled = false (questionnaire_sent = false), and
\* from step 2 on the appointment is confirmed and its slot unavailable.
C18_PartialFailureKeepsBooking ==
    LET id == saga.appointment_id
        noReminder == RemindersFor(id) = {}
        noQuestionnaire ==
            ResponsesFor(questionnaire_responses, id, "default") = {}
    IN  /\ (saga.pc \in {"step2", "step3", "respond", "result"} /\ id # 0)
           => /\ id \in Rows
              /\ appointments[id].status = "confirmed"
              /\ ~appointment_slots[appointments[id].slot_id]
        /\ (saga.pc = "result" /\ id # 0 /\ (noReminder \/ noQuestionnaire))
           => /\ saga.result.success
              /\ noReminder => ~saga.result.reminder_scheduled
              /\ noQuestionnaire => ~saga.result.questionnaire_sent

\* an automatic booking has ended with its reminder step failed and its
\* questionnaire step done
C18_Witness ==
    /\ saga.pc = "result"
    /\ saga.appointment_id \in Rows
    /\ RemindersFor(saga.appointment_id) = {}
    /\ ResponsesFor(questionnaire_responses, saga.appointment_id,
                    "default") # {}
    /\ saga.result.success
    /\ ~saga.result.reminder_scheduled
    /\ saga.result.questionnaire_sent

\* ------------------------------------------------------------------ C19
\* C19: when step 1 of an automatic booking finds no available slot for
\* the preferred date and time, that step creates no appointment and
\* changes no slot, the orchestrator answers with a failure, and no later
\* step of this automatic booking stores a reminder or a questionnaire
\* response; the client's result is a failure.
C19_FailedStepOneAborts ==
    [][/\ (/\ saga.pc = "preview" /\ saga'.pc # "preview"
            /\ Matching(appointment_slots, saga.date, saga.time) = {})
          => /\ saga'.pc = "respond"
             /\ ~saga'.response.success
             /\ UNCHANGED <<appointments, appointment_slots, reminders,
                            questionnaire_responses>>
       /\ (/\ saga.pc \in {"respond", "result"}
            /\ ~saga.response.success /\ saga' # saga)
          => /\ saga'.pc \in {"result", "idle"}
             /\ saga'.pc = "result" => ~saga'.result.success
             /\ UNCHANGED <<appointments, appointment_slots, reminders,
                            questionnaire_responses>>]_vars

\* an automatic booking whose listed slot was gone at step 1 has ended in a
\* failure; nothing was stored for it
C19_Witness ==
    /\ saga.pc = "result"
    /\ saga.listed \in SlotIds
    /\ saga.appointment_id = 0
    /\ ~saga.result.success
    /\ saga.result.message = "SlotUnavailable"
    /\ reminders = {}
    /\ questionnaire_responses = {}

\* ------------------------------------------------------------------ C20
\* C20: when an automatic booking is confirmed after a direct
\* book_appointment has, since the listing was read, created an appointment
\* on the slot picked from that listing and has been answered, step 1
\* creates no appointment and the orchestrator answers with the
\* slot-unavailable failure.
C20_StaleSelectionRefused ==
    [][(/\ saga.pc = "preview" /\ saga'.pc # "preview"
        /\ saga.listed \in SlotIds
        /\ NoRequestOpen
        /\ \E id \in Rows : /\ id > saga.seen
                             /\ appointments[id].slot_id = saga.listed
                             /\ appointments[id].status = "confirmed")
       => /\ appointments' = appointments
          /\ saga'.response = SlotUnavailable]_vars

C22_NeverDeleted ==
    [][/\ Len(appointments') >= Len(appointments)
       /\ \A id \in Rows : appointments'[id].id = appointments[id].id
       /\ \A h \in Handlers :
             (/\ req[h].action = "cancel_appointment"
              /\ InFlight(h) /\ req'[h] # req[h])
             => /\ Len(appointments') = Len(appointments)
                /\ \A id \in Rows :
                      appointments'[id] =
                          IF id = req[h].appointment_id
                          THEN [appointments[id] EXCEPT
                                   !.status = appointments'[id].status]
                          ELSE appointments[id]]_vars

\* the first of two appointments has been cancelled, and both are on record
C22_Witness ==
    /\ Len(appointments) = 2
    /\ appointments[1].status = "cancelled"
    /\ appointments[2].status = "confirmed"
    /\ \E h \in Handlers :
          /\ Answered(h) /\ req[h].action = "cancel_appointment"
          /\ req[h].appointment_id = 1 /\ req[h].response = Ok

\* ------------------------------------------------------------------ C23
\* C23: when a book_appointment has answered with a success, the slot it
\* booked is unavailable, whoever the caller is.
C23_BookedSlotUnavailable ==
    \A h \in Handlers :
        (/\ Answered(h) /\ req[h].action = "book_appointment"
         /\ req[h].response.success)
        => ~appointment_slots[req[h].slot_id]

\* ------------------------------------------------------------------ C24
\* C24: when a book_appointment, reschedule_appointment or
\* cancel_appointment has been answered with an error, every slot and every
\* appointment is as it was when the request was received.
C24_ErrorLeavesTables ==
    \A h \in Handlers :
        (Answered(h) /\ ~req[h].response.success)
        => <<appointment_slots, appointments>> = snap

\* ------------------------------------------------------------------ C25
\* C25: the slot and appointment records change only in a step of a
\* book_appointment, reschedule_appointment or cancel_appointment request of
\* an authenticated caller; every other step -- of a request without a valid
\* token, an unknown action, get_slots, get_my_appointments, the
\* questionnaire agent, the reminder agent, analytics -- leaves them as
\* they are.
C25_OnlyBookingWrites ==
    [][<<appointment_slots, appointments>>' # <<appointment_slots, appointments>>
        => /\ sub' = sub /\ rem' = rem
           /\ \E h \in Handlers :
                 /\ req'[h] # req[h]
                 /\ req[h].pc \notin {"idle", "done"}
                 /\ req[h].user \in Users
                 /\ req[h].action \in {"book_appointment",
                                        "reschedule_appointment",
                                        "cancel_appointment"}]_vars

\* An appointment is stored, and a request without a valid token to cancel
\* it has been answered with 401.
C25_Witness ==
    \E h \in Handlers :
        /\ Answered(h)
        /\ req[h].user = NoUser
        /\ req[h].action = "cancel_appointment"
        /\ req[h].response = Unauthorized401
        /\ req[h].appointment_id \in Rows
        /\ appointments[req[h].appointment_id].status = "confirmed"
        /\ ~appointment_slots[appointments[req[h].appointment_id].slot_id]

C27_ReminderOnlyForOwnAppointment ==
    [][\A h \in Handlers :
          /\ (rem[h].pc = "idle" /\ rem'[h].action = "schedule_reminder")
                => IF AppointmentVisible(appointments, rem'[h].appointment_id,
                                         rem'[h].user)
                   THEN rem'[h].pc = "remind_insert"
                   ELSE /\ rem'[h].pc = "done"
                        /\ rem'[h].response = AppointmentNotFound
                        /\ reminders' = reminders
          /\ (rem'[h] # rem[h] /\ reminders' # reminders)
                => /\ rem[h].pc = "remind_insert"
                   /\ AppointmentVisible(appointments, rem[h].appointment_id,
                                         rem[h].user)]_vars

\* A schedule_reminder request for a stored appointment of another patient
\* with another doctor has been answered 'Appointment not found', and the
\* appointment has no reminder.
C27_Witness ==
    \E h \in Handlers :
        /\ rem[h].pc = "done"
        /\ rem[h].action = "schedule_reminder"
        /\ rem[h].response = AppointmentNotFound
        /\ rem[h].appointment_id \in Rows
        /\ appointments[rem[h].appointment_id].patient_id # rem[h].user
        /\ DoctorUser(appointments[rem[h].appointment_id].doctor_id)
               # rem[h].user
        /\ RemindersFor(rem[h].appointment_id) = {}

\* ------------------------------------------------------------------ C28
\* C28: the step that receives a submit_response for an appointment that
\* does not exist, or whose patient_id is not the caller, answers the
\* request with 'Appointment not found' and leaves the stored questionnaire
\* responses as they are.
C28_SubmitNotOwnedFails ==
    [][\A h \in Handlers :
          (/\ sub[h].pc = "idle"
           /\ sub'[h].action = "submit_response"
           /\ \/ sub'[h].appointment_id \notin Rows
              \/ appointments[sub'[h].appointment_id].patient_id
                     # sub'[h].user)
          => /\ sub'[h].pc = "done"
             /\ sub'[h].response = AppointmentNotFound
             /\ questionnaire_responses' = questionnaire_responses]_vars

\* The patient of a stored appointment has a response on record, and a
\* submit_response of another caller for the same appointment and
\* questionnaire, with other answers, has been answered 'Appointment not
\* found'.
C28_Witness ==
    \E h \in Handlers :
        /\ sub[h].pc = "done"
        /\ sub[h].action = "submit_response"
        /\ sub[h].response = AppointmentNotFound
        /\ sub[h].appointment_id \in Rows
        /\ appointments[sub[h].appointment_id].patient_id # sub[h].user
        /\ \E r \in ResponsesFor(questionnaire_responses,
                                  sub[h].appointment_id,
                                  sub[h].questionnaire_id) :
              /\ r.patient_id = appointments[sub[h].appointment_id].patient_id
              /\ r.responses # sub[h].responses

\* ------------------------------------------------------------------ C29
\* C29: cancel_appointment sets the status before it frees the slot: in
\* every step in which a cancel_appointment request makes a slot available,
\* the appointment it cancels already has status 'cancelled', so the
\* request itself never shows a concurrent request that slot available
\* with its appointment still confirmed.
C29_CancelledBeforeFreed ==
    [][\A h \in Handlers, s \in SlotIds :
          (/\ req[h].action = "cancel_appointment"
           /\ req'[h] # req[h]
           /\ ~appointment_slots[s] /\ appointment_slots'[s])
          => /\ s = req[h].appointment.slot_id
             /\ appointments[req[h].appointment_id].status = "cancelled"
             /\ appointments'[req[h].appointment_id].status = "cancelled"]_vars

\* Between the two writes of a cancel_appointment: the status is
\* 'cancelled', the slot, which the caller may write, is still unavailable,
\* and another request is in flight.
C29_Witness ==
    \E h \in Handlers :
        /\ req[h].pc = "cancel_free"
        /\ req[h].appointment.status = "confirmed"
        /\ appointments[req[h].appointment_id].status = "cancelled"
        /\ SlotWritable(req[h].user, req[h].appointment.slot_id)
        /\ ~appointment_slots[req[h].appointment.slot_id]
        /\ \E g \in Handlers \ {h} : InFlight(g)

\* ------------------------------------------------------------------ C30
\* C30: every appointment that is not cancelled has the doctor_id of the
\* slot its slot_id references, also after a reschedule_appointment to a
\* slot of another doctor.
C30_DoctorMatchesSlot ==
    \A id \in Rows :
        appointments[id].status # "cancelled"
        => /\ appointments[id].slot_id \in SlotIds
           /\ appointments[id].doctor_id
                 = SlotRow(appointments[id].slot_id).doctor_id

====
